---- MODULE Spec2Model ----
(***************************************************************************)
(* Model of src/database/comparator.rs: the Comparator trait, its two      *)
(* built-in implementations (OrdComparator, DefaultComparator), the three  *)
(* extern "C" adapters (name, compare, destructor) and create_comparator.  *)
(*                                                                         *)
(* The storage engine is the environment: it creates handles, calls the    *)
(* name and compare adapters from its threads, and tears a handle down     *)
(* once, when no call on that handle is in flight.                         *)
(***************************************************************************)
EXTENDS Integers, Sequences, FiniteSets

\* ------------------------------------------------------------------ bounds

\* Number of comparator boxes (and so native handles) a run may create.
MaxHandles == 2

\* Typed keys handed to a comparator called directly range over -MaxKey..MaxKey.
MaxKey == 3

Addrs == 1..MaxHandles

Keys == (0 - MaxKey)..MaxKey

\* Engine threads that may be inside an adapter at the same time.
Threads == {"t1", "t2"}

\* Raw key buffers the engine passes to the compare adapter: the empty
\* buffer, key 3 in one byte, key 7 in two bytes.
Buffers == { <<>>, <<3>>, <<0, 7>> }

\* Identity strings given to OrdComparator::new, as bytes ("my", "i").
Names == { <<109, 121>>, <<105>> }

\* What may lie in memory right after a string's storage: a NUL, a byte and
\* then a NUL, or a byte and then the end of readable memory.
Adjacent == { <<0>>, <<88, 0>>, <<88>> }

\* The comparator types create_comparator is instantiated with.
Types == {"OrdComparator", "DefaultComparator"}

VARIABLES heap, handle, given, thr, probe

vars == <<heap, handle, given, thr, probe>>

\* --------------------------------------------------------------- the code

\* The bytes of the literal "default_comparator" (static storage).
DefaultName ==
  <<100, 101, 102, 97, 117, 108, 116, 95, 99, 111, 109, 112, 97, 114, 97, 116, 111, 114>>

\* Comparator::null, the trait's default body.
Comparator_null == FALSE

\* The override left out: the trait's default applies.
DefaultComparator_null_default == FALSE

\* <DefaultComparator as Comparator>::null.
DefaultComparator_null == TRUE

\* T::null() for a concrete T: the override when there is one, else the default.
null(T) == IF T = "DefaultComparator" THEN DefaultComparator_null ELSE Comparator_null

\* OrdComparator::new(name): the string is copied into the struct.
OrdComparator_new(nm) == [type |-> "OrdComparator", name |-> nm]

\* DefaultComparator: a unit struct, no fields.
DefaultComparator_new == [type |-> "DefaultComparator", name |-> <<>>]

\* No object (never allocated, or freed).
NoObj == [type |-> "none", name |-> <<>>]

\* A pointer: base 0 is static storage, base p >= 1 the name storage of the
\* object at address p; off is the byte offset into that storage.
NullPtr == [base |-> 0 - 1, off |-> 0]

\* A pointer one byte into the string.
OrdComparator_name_off(self) == [base |-> self, off |-> 1]

\* <OrdComparator as Comparator>::name: self.name.as_ptr().
OrdComparator_name(self) == [base |-> self, off |-> 0]

\* <DefaultComparator as Comparator>::name: the literal's as_ptr().
DefaultComparator_name(self) == [base |-> 0, off |-> 0]

\* K's own Ord::cmp, as used by a.cmp(b) on integer keys.
cmp(a, b) == IF a < b THEN "Less" ELSE IF a = b THEN "Equal" ELSE "Greater"

\* The arguments swapped: b.cmp(a).
OrdComparator_compare_rev(a, b) == cmp(b, a)

\* <OrdComparator as Comparator>::compare.
OrdComparator_compare(a, b) == cmp(a, b)

\* The sentinel ordering its keys like any other comparator.
DefaultComparator_compare_ord(a, b) == cmp(a, b)

\* <DefaultComparator as Comparator>::compare.
DefaultComparator_compare(a, b) == "Equal"

\* x.name() in the name adapter, monomorphised for T.
T_name(T, self) ==
  IF T = "OrdComparator" THEN OrdComparator_name(self) ELSE DefaultComparator_name(self)

\* x.compare(&a_key, &b_key) in the compare adapter, monomorphised for T.
T_compare(T, a, b) ==
  IF T = "OrdComparator" THEN OrdComparator_compare(a, b) ELSE DefaultComparator_compare(a, b)

\* The match with the arms for Less and Greater exchanged.
OrderingToInt_swapped(o) == IF o = "Less" THEN 1 ELSE IF o = "Equal" THEN 0 ELSE 0 - 1

\* The match of the compare adapter: Ordering to the engine's integer.
OrderingToInt(o) == IF o = "Less" THEN 0 - 1 ELSE IF o = "Equal" THEN 0 ELSE 1

\* key::from_u8: a byte slice to a key, read as a big-endian number.
RECURSIVE from_u8(_)
from_u8(s) ==
  IF s = <<>> THEN 0
  ELSE from_u8(SubSeq(s, 1, Len(s) - 1)) * 256 + s[Len(s)]

\* A heap slot: the object, who owns its box, how often its drop has run.
FreshSlot == [obj |-> NoObj, owner |-> {}, drops |-> 0]

\* The raw pointer handed over while the caller keeps its box.
MoveIntoHandle_alias(obj) == [obj |-> obj, owner |-> {"caller", "handle"}, drops |-> 0]

\* mem::transmute(x) in create_comparator: the caller's box becomes the
\* state pointer held by the native handle.
MoveIntoHandle(obj) == [obj |-> obj, owner |-> {"handle"}, drops |-> 0]

\* The box forgotten instead of dropped: the owner is gone, T's drop never runs.
DropBox_forget(slot) == [obj |-> slot.obj, owner |-> {}, drops |-> slot.drops]

\* Dropping a Box<T>: T's drop runs, then the allocation is freed.
DropBox(slot) == [obj |-> NoObj, owner |-> {}, drops |-> slot.drops + 1]

\* An adapter that rebuilds the Box<T> from the state pointer, so that the
\* box is dropped when the adapter returns.
Borrow_owning(slot) == [obj |-> NoObj, owner |-> {}, drops |-> slot.drops + 1]

\* &*(state as *mut T) in the name and compare adapters: a shared borrow.
Borrow(slot) == slot

\* The destructor adapter: the state pointer becomes a Box<T> again, which
\* falls out of scope.
Reclaim(slot) == DropBox([slot EXCEPT !.owner = {"adapter"}])

\* The bytes stored at a pointer (to the end of that storage).
Storage(hp, ptr) ==
  LET all == IF ptr.base = 0 THEN DefaultName ELSE hp[ptr.base].obj.name
  IN  SubSeq(all, ptr.off + 1, Len(all))

\* The engine reading a C string: the bytes before the first NUL of mem,
\* and whether a NUL was found before mem's end.
RECURSIVE CStr(_)
CStr(mem) ==
  IF mem = <<>> THEN [str |-> <<>>, nul |-> FALSE]
  ELSE IF mem[1] = 0 THEN [str |-> <<>>, nul |-> TRUE]
  ELSE LET r == CStr(SubSeq(mem, 2, Len(mem)))
       IN  [str |-> <<mem[1]>> \o r.str, nul |-> r.nul]

\* ------------------------------------------------------------------ state

NoHandle == [status |-> "none", T |-> "none", state |-> 0]

\* A handle the engine has destroyed.
Gone == [status |-> "destroyed", T |-> "none", state |-> 0]

Idle ==
  [pc |-> "idle", op |-> "none", h |-> 0, a |-> <<>>, b |-> <<>>, int |-> 0,
   ptr |-> NullPtr, at |-> <<>>, cstr |-> <<>>, nul |-> FALSE]

NoProbe == [op |-> "none", T |-> "none", a |-> 0, b |-> 0,
            ab |-> "none", ba |-> "none", flag |-> FALSE]

Init ==
  /\ heap = [p \in Addrs |-> FreshSlot]
  /\ handle = [p \in Addrs |-> NoHandle]
  /\ given = [p \in Addrs |-> <<>>]
  /\ thr = [t \in Threads |-> Idle]
  /\ probe = NoProbe

Live(h) == handle[h].status = "live"

InCall(t) == thr[t].pc \in {"compare", "name"}

\* The next address the allocator hands out.
NextAddr == CHOOSE p \in Addrs : heap[p] = FreshSlot /\ handle[p] = NoHandle
                                 /\ \A q \in Addrs : q < p => handle[q] # NoHandle

\* ---------------------------------------------------------------- actions

\* create_comparator(Box::new(OrdComparator::new(nm))) or
\* create_comparator(Box::new(DefaultComparator)).
create_comparator(T, nm) ==
  /\ \E p \in Addrs : handle[p] = NoHandle
  /\ LET p == NextAddr
         x == IF T = "OrdComparator" THEN OrdComparator_new(nm) ELSE DefaultComparator_new
     IN  /\ heap' = [heap EXCEPT ![p] = MoveIntoHandle(x)]
         /\ handle' = [handle EXCEPT ![p] = [status |-> "live", T |-> T, state |-> p]]
         /\ given' = [given EXCEPT ![p] = IF T = "OrdComparator" THEN nm ELSE DefaultName]
  /\ UNCHANGED <<thr, probe>>

\* The engine enters the compare adapter of live handle h with two buffers.
EngineCallsCompare(t, h, a, b) ==
  /\ ~InCall(t)
  /\ Live(h)
  /\ thr' = [thr EXCEPT ![t] = [Idle EXCEPT !.pc = "compare", !.op = "compare",
                                            !.h = h, !.a = a, !.b = b]]
  /\ UNCHANGED <<heap, handle, given, probe>>

\* The body of the compare adapter.
compare(t) ==
  /\ thr[t].pc = "compare"
  /\ LET f == thr[t]
         state == handle[f.h].state
         T == handle[f.h].T
         a_key == from_u8(f.a)
         b_key == from_u8(f.b)
         o == T_compare(T, a_key, b_key)
     IN  /\ heap' = [heap EXCEPT ![state] = Borrow(@)]
         /\ thr' = [thr EXCEPT ![t] = [f EXCEPT !.pc = "returned",
                                               !.int = OrderingToInt(o)]]
  /\ UNCHANGED <<handle, given, probe>>

\* The engine enters the name adapter of live handle h.
EngineCallsName(t, h) ==
  /\ ~InCall(t)
  /\ Live(h)
  /\ thr' = [thr EXCEPT ![t] = [Idle EXCEPT !.pc = "name", !.op = "name", !.h = h]]
  /\ UNCHANGED <<heap, handle, given, probe>>

\* The body of the name adapter; the engine then reads the returned pointer
\* as a C string, over whatever follows the string's storage in memory.
name(t) ==
  /\ thr[t].pc = "name"
  /\ \E adj \in Adjacent :
       LET f == thr[t]
           state == handle[f.h].state
           T == handle[f.h].T
           ptr == T_name(T, state)
           stored == Storage(heap, ptr)
           read == CStr(stored \o adj)
       IN  /\ heap' = [heap EXCEPT ![state] = Borrow(@)]
           /\ thr' = [thr EXCEPT ![t] = [f EXCEPT !.pc = "returned", !.ptr = ptr,
                                                 !.at = stored, !.cstr = read.str,
                                                 !.nul = read.nul]]
  /\ UNCHANGED <<handle, given, probe>>

\* The engine discards live handle h, with no adapter call on h in flight:
\* the destructor adapter runs, and the engine frees the handle itself.
destructor(h) ==
  /\ Live(h)
  /\ \A t \in Threads : InCall(t) => thr[t].h # h
  /\ heap' = [heap EXCEPT ![handle[h].state] = Reclaim(@)]
  /\ handle' = [handle EXCEPT ![h] = Gone]
  /\ given' = [given EXCEPT ![h] = <<>>]
  /\ UNCHANGED <<thr, probe>>

Next ==
  \/ \E T \in Types, nm \in Names : create_comparator(T, nm)
  \/ \E t \in Threads, h \in Addrs, a \in Buffers, b \in Buffers :
       EngineCallsCompare(t, h, a, b)
  \/ \E t \in Threads : compare(t)
  \/ \E t \in Threads, h \in Addrs : EngineCallsName(t, h)
  \/ \E t \in Threads : name(t)
  \/ \E h \in Addrs : destructor(h)

Spec == Init /\ [][Next]_vars

\* ------------------------------------------- the comparators called directly

\* A Rust caller holding an OrdComparator calls compare on two typed keys,
\* in both argument orders.
CallOrdCompare(a, b) ==
  /\ probe' = [NoProbe EXCEPT !.op = "compare", !.T = "OrdComparator", !.a = a, !.b = b,
                              !.ab = OrdComparator_compare(a, b),
                              !.ba = OrdComparator_compare(b, a)]
  /\ UNCHANGED <<heap, handle, given, thr>>

\* A Rust caller holding a DefaultComparator calls compare on two i32 keys.
CallDefaultCompare(a, b) ==
  /\ probe' = [NoProbe EXCEPT !.op = "compare", !.T = "DefaultComparator", !.a = a, !.b = b,
                              !.ab = DefaultComparator_compare(a, b),
                              !.ba = DefaultComparator_compare(b, a)]
  /\ UNCHANGED <<heap, handle, given, thr>>

\* A caller asks T::null().
CallNull(T) ==
  /\ probe' = [NoProbe EXCEPT !.op = "null", !.T = T, !.flag = null(T)]
  /\ UNCHANGED <<heap, handle, given, thr>>

NextPure ==
  \/ \E a \in Keys, b \in Keys : CallOrdCompare(a, b)
  \/ \E a \in Keys, b \in Keys : CallDefaultCompare(a, b)
  \/ \E T \in Types : CallNull(T)

SpecPure == Init /\ [][NextPure]_vars

\* ----------------------------------------------------------------- claims

\* A thread holding the result of a call it made on a handle that still exists.
Returned(t, op) == thr[t].pc = "returned" /\ thr[t].op = op /\ Live(thr[t].h)

\* C1: for every handle and every pair of buffers, empty ones included, the
\* compare adapter returns a negative integer when T's compare of the two
\* decoded keys is Less, zero when it is Equal, a positive one when it is
\* Greater; with an OrdComparator, keys 3,7 give negative and 7,3 positive.
C1_CompareSign ==
  \A t \in Threads :
    Returned(t, "compare") =>
      LET f == thr[t]
          T == handle[f.h].T
          o == T_compare(T, from_u8(f.a), from_u8(f.b))
      IN  /\ o = "Less" => f.int < 0
          /\ o = "Equal" => f.int = 0
          /\ o = "Greater" => f.int > 0
          /\ (T = "OrdComparator" /\ f.a = <<3>> /\ f.b = <<0, 7>>) => f.int < 0
          /\ (T = "OrdComparator" /\ f.a = <<0, 7>> /\ f.b = <<3>>) => f.int > 0
          /\ (T = "OrdComparator" /\ f.a = f.b) => f.int = 0

\* An OrdComparator handle has answered (empty, 3) with a negative integer
\* and (7, 3) with a positive one.
C1_Witness ==
  /\ Returned("t1", "compare") /\ Returned("t2", "compare")
  /\ handle[thr["t1"].h].T = "OrdComparator"
  /\ handle[thr["t2"].h].T = "OrdComparator"
  /\ thr["t1"].a = <<>> /\ thr["t1"].b = <<3>> /\ thr["t1"].int < 0
  /\ thr["t2"].a = <<0, 7>> /\ thr["t2"].b = <<3>> /\ thr["t2"].int > 0

\* C2: the wrapped comparator's drop has run 0 times in every state before
\* the handle's teardown, whatever calls were made, and exactly once after
\* it; it runs only when the handle goes from live to destroyed, and then no
\* call on the handle is in flight.
C2_DropOnce ==
  \A p \in Addrs :
    /\ handle[p].status \in {"none", "live"} => heap[p].drops = 0
    /\ handle[p].status = "destroyed" =>
         /\ heap[p].drops = 1
         /\ \A t \in Threads : InCall(t) => thr[t].h # p

\* A handle was torn down after a thread got a compare result from it: the
\* drop has run once.
C2_Witness ==
  \E p \in Addrs, t \in Threads :
    /\ handle[p].status = "destroyed" /\ heap[p].drops = 1
    /\ thr[t].pc = "returned" /\ thr[t].op = "compare" /\ thr[t].h = p

C4_NulTerminated ==
  \A t \in Threads :
    Returned(t, "name") =>
      /\ thr[t].nul
      /\ thr[t].cstr = given[thr[t].h]
      /\ Len(thr[t].cstr) + 1 <= Len(thr[t].at)

\* C6: between creation and teardown the box has exactly one owner, the
\* native handle: the caller keeps none, the adapters' borrows add none and
\* free nothing; only teardown leaves the box without owner, and freed.
C6_SingleOwner ==
  \A p \in Addrs :
    /\ Live(p) => /\ heap[p].owner = {"handle"}
                  /\ heap[p].obj # NoObj
                  /\ handle[p].state = p
    /\ handle[p].status = "destroyed" => (heap[p].owner = {} /\ heap[p].obj = NoObj)
    /\ handle[p].status = "none" => heap[p] = FreshSlot

\* A live handle, still the one owner after both adapters borrowed its state.
C6_Witness ==
  /\ Returned("t1", "compare") /\ Returned("t2", "name")
  /\ thr["t1"].h = thr["t2"].h
  /\ heap[handle[thr["t1"].h].state].owner = {"handle"}

\* The integer a compare call on a comparator of type T returns when run alone.
AloneInt(T, ka, kb) ==
  IF T = "DefaultComparator" THEN 0
  ELSE IF ka < kb THEN 0 - 1 ELSE IF ka > kb THEN 1 ELSE 0

\* C7: under every interleaving of the engine threads' calls, the step in
\* which a thread's adapter runs writes nothing but that thread's own frame
\* (not the heap, the handle or another thread's frame), and its result is
\* the one the call gives alone: for compare the sign of the keys' order (0
\* for the null comparator), for name the pointer to the handle's string.
C7_Independent ==
  [][\A t \in Threads :
       (InCall(t) /\ thr'[t].pc = "returned") =>
          LET f == thr'[t]
              T == handle[f.h].T
          IN  /\ heap' = heap /\ handle' = handle /\ given' = given
              /\ \A u \in Threads \ {t} : thr'[u] = thr[u]
              /\ f.op = "compare" => f.int = AloneInt(T, from_u8(f.a), from_u8(f.b))
              /\ f.op = "name" =>
                   /\ f.ptr.base = (IF T = "OrdComparator" THEN handle[f.h].state ELSE 0)
                   /\ f.ptr.off = 0
                   /\ f.at = given[f.h]]_vars

\* One thread holds the result of a compare call on a handle while the other
\* is inside the name adapter of the same handle.
C7_Witness ==
  /\ Returned("t1", "compare") /\ thr["t1"].int # 0
  /\ thr["t2"].pc = "name" /\ thr["t2"].h = thr["t1"].h

\* C10: no native handle has the null comparator as its state, and so no
\* compare call answers 0 for two distinct keys on the sentinel's behalf.
C10_NoSentinelHandle ==
  /\ \A p \in Addrs : handle[p].T # "DefaultComparator"
  /\ \A t \in Threads :
       (Returned(t, "compare") /\ from_u8(thr[t].a) # from_u8(thr[t].b)) => thr[t].int # 0

\* The ordering with Less and Greater exchanged.
Inverse(o) == IF o = "Less" THEN "Greater" ELSE IF o = "Greater" THEN "Less" ELSE o

\* C5: OrdComparator's compare(a, b) is Less, Equal or Greater exactly when
\* a < b, a = b or a > b; compare(b, a) is its inverse, and compare(a, a) is
\* Equal.
C5_OrdIntrinsic ==
  (probe.op = "compare" /\ probe.T = "OrdComparator") =>
     /\ probe.ab = "Less" <=> probe.a < probe.b
     /\ probe.ab = "Equal" <=> probe.a = probe.b
     /\ probe.ab = "Greater" <=> probe.a > probe.b
     /\ probe.ba = Inverse(probe.ab)
     /\ probe.a = probe.b => (probe.ab = "Equal" /\ probe.ba = "Equal")

\* OrdComparator has compared a smaller key with a larger one, both ways.
C5_Witness ==
  /\ probe.op = "compare" /\ probe.T = "OrdComparator"
  /\ probe.a < probe.b /\ probe.ab = "Less" /\ probe.ba = "Greater"

\* C8: null() is true for DefaultComparator and false for OrdComparator.
C8_NullFlag ==
  probe.op = "null" => (probe.flag <=> probe.T = "DefaultComparator")

\* DefaultComparator::null() was asked and said true.
C8_Witness == probe.op = "null" /\ probe.T = "DefaultComparator" /\ probe.flag

\* C9: DefaultComparator's compare is Equal for every pair of keys, in
\* either argument order, also when the keys differ.
C9_DefaultEqual ==
  (probe.op = "compare" /\ probe.T = "DefaultComparator") =>
     (probe.ab = "Equal" /\ probe.ba = "Equal")

\* DefaultComparator has compared two different keys and said Equal.
C9_Witness ==
  /\ probe.op = "compare" /\ probe.T = "DefaultComparator"
  /\ probe.a # probe.b /\ probe.ab = "Equal"

====
